---- MODULE Spec2Model ----
(***************************************************************************)
(* Model of sdkspec/generate.py: the java_const helper and the             *)
(* load -> render -> mkdir -> write pipeline of the entry point, run by    *)
(* two generator processes over one filesystem.                            *)
(*                                                                         *)
(* A Python str is a sequence of characters; a character is a one-element  *)
(* TLA+ string, and the three non-ASCII characters of the alphabet are     *)
(* spelled by name: "sharp_s" is U+00DF, "kra" is U+0138, "circled_a" is   *)
(* U+24D0 (their upper-case forms are what str.upper() returns for them).  *)
(***************************************************************************)
EXTENDS Integers, Sequences, FiniteSets, TLC

MaxLen == 3

Alphabet == {"a", "Z", "7", "-", ".", "_", "$", "sharp_s", "kra", "circled_a"}

RECURSIVE StringsUpTo(_)
StringsUpTo(n) ==
  IF n = 0 THEN {<<>>}
  ELSE LET S == StringsUpTo(n - 1)
       IN  S \cup {Append(s, c) : s \in {t \in S : Len(t) = n - 1}, c \in Alphabet}

Names == StringsUpTo(MaxLen)

(* str.upper() on one character: the full Unicode upper-case mapping.      *)
CharUpper(c) ==
  CASE c = "a"         -> <<"A">>
    [] c = "sharp_s"   -> <<"S", "S">>
    [] c = "circled_a" -> <<"CIRCLED_A">>
    [] OTHER           -> <<c>>

RECURSIVE Upper(_)
Upper(s) == IF s = <<>> THEN <<>> ELSE CharUpper(Head(s)) \o Upper(Tail(s))

(* str.replace(old, new) for one-character old and new.                    *)
RECURSIVE Replace(_, _, _)
Replace(s, old, new) ==
  IF s = <<>> THEN <<>>
  ELSE <<IF Head(s) = old THEN new ELSE Head(s)>> \o Replace(Tail(s), old, new)

java_const_keeps_period(name) == Replace(Upper(name), "-", "_")

java_const_no_upper(name) == Replace(Replace(name, "-", "_"), ".", "_")

java_const(name) == Replace(Replace(Upper(name), "-", "_"), ".", "_")

(***************************************************************************)
(* The filesystem and the two generator processes.                         *)
(***************************************************************************)
VARIABLES
  constPc, name, result,   \* one call of java_const: its argument and return value
  concurrent,              \* TRUE when the two processes may overlap in time
  specFiles,               \* path -> content of the YAML files --spec can name
  template,                \* the file ./SdkSpec.java.j2
  dirs,                    \* the directories that exist below the working directory
  outFile,                 \* the file out/java/SdkSpec.java
  fault,                   \* condition of the output filesystem
  status, pc,              \* per process: exit status and index of the next statement
  argv,                    \* per process: its command line
  args, env, ctx, text,    \* per process: the locals of __main__ and render
  fd,                      \* per process: the offset of its open descriptor, -1 when none
  failed,                  \* per process: the exception that ended it
  did,                     \* per process: the statements it has executed so far
  fsAtStart, fsAtExit,     \* per process: dirs and outFile when it started and ended
  finishedBefore,          \* per process: the processes that had ended when it started
  writeOrder               \* the processes in the order of their write() calls

constVars == <<constPc, name, result>>
fsVars    == <<specFiles, template, dirs, outFile, fault>>
procVars  == <<status, pc, argv, args, env, ctx, text, fd, failed>>
histVars  == <<did, fsAtStart, fsAtExit, finishedBefore, writeOrder>>
vars      == <<constVars, concurrent, fsVars, procVars, histVars>>

Procs == {"p1", "p2"}

DefaultSpec == "sdk-spec.yaml"
JavaPackage == "com.braintrust.semconv"
TemplateName == "./SdkSpec.java.j2"
OutDir == "out/java"

SpecPaths == {DefaultSpec, "alt.yaml", "nonexistent.yaml"}

(* Command lines: no option, --spec with a path, and an unknown option.    *)
Argvs == {<<>>, <<"--spec", "alt.yaml">>, <<"--spec", "nonexistent.yaml">>, <<"--bogus">>}

(* argparse with the single option --spec (default sdk-spec.yaml).         *)
parse_args(av) ==
  IF av = <<>> THEN [ok |-> TRUE, spec |-> DefaultSpec]
  ELSE IF Len(av) = 2 /\ av[1] = "--spec" THEN [ok |-> TRUE, spec |-> av[2]]
  ELSE [ok |-> FALSE, spec |-> DefaultSpec]

(* File contents: kind "absent" (no such file), "garbage" (not YAML),      *)
(* "empty" (the document {}), "yaml" (the document {name: <name>}).        *)
Content(kind, nm) == [kind |-> kind, name |-> nm]

EmptyDict == [k \in {} |-> <<>>]

(* yaml.safe_load of a readable file's text.                               *)
safe_load(content) ==
  IF content.kind = "yaml" THEN [ok |-> TRUE, doc |-> [name |-> content.name]]
  ELSE IF content.kind = "empty" THEN [ok |-> TRUE, doc |-> EmptyDict]
  ELSE [ok |-> FALSE, doc |-> EmptyDict]

load_spec_swallows_errors(files, path) ==
  IF files[path].kind \in {"yaml", "empty"}
  THEN [ok |-> TRUE, exc |-> "none",
        value |-> [spec |-> safe_load(files[path]).doc, source_path |-> path]]
  ELSE [ok |-> TRUE, exc |-> "none",
        value |-> [spec |-> EmptyDict, source_path |-> path]]

load_spec_flattens(files, path) ==
  IF files[path].kind = "absent"
  THEN [ok |-> FALSE, exc |-> "FileNotFoundError", value |-> EmptyDict]
  ELSE LET raw == safe_load(files[path])
       IN  IF ~raw.ok THEN [ok |-> FALSE, exc |-> "YAMLError", value |-> EmptyDict]
           ELSE [ok |-> TRUE, exc |-> "none",
                 value |-> [k \in DOMAIN raw.doc \cup {"source_path"} |->
                              IF k = "source_path" THEN path ELSE raw.doc[k]]]

load_spec(files, path) ==
  IF files[path].kind = "absent"
  THEN [ok |-> FALSE, exc |-> "FileNotFoundError", value |-> EmptyDict]
  ELSE LET raw == safe_load(files[path])
       IN  IF ~raw.ok THEN [ok |-> FALSE, exc |-> "YAMLError", value |-> EmptyDict]
           ELSE [ok |-> TRUE, exc |-> "none",
                 value |-> [spec |-> raw.doc, source_path |-> path]]

(* dict | dict : the right operand wins on common keys.                    *)
DictMerge(a, b) ==
  [k \in DOMAIN a \cup DOMAIN b |-> IF k \in DOMAIN b THEN b[k] ELSE a[k]]

make_ctx(loaded) == DictMerge(loaded, [java_package |-> JavaPackage])

(***************************************************************************)
(* Templates.  A template is a sequence of items: literal text, a printed  *)
(* variable {{ ref }}, or a call {{ java_const(ref) }} of the helper.      *)
(***************************************************************************)
Item(kind, arg) == [kind |-> kind, arg |-> arg]

Templates ==
  { <<Item("lit", "package "), Item("var", "java_package"), Item("lit", ";")>>,
    <<Item("lit", "// "), Item("var", "source_path"), Item("java_const", "spec.name")>>,
    <<Item("var", "spec.name")>>,
    <<Item("lit", "v"), Item("var", "version")>> }

NoTemplate == [exists |-> FALSE, items |-> <<>>]

(* Environment(loader=FileSystemLoader("."), undefined=StrictUndefined)    *)
(* followed by env.globals['java_const'] = java_const.                     *)
NoEnv == [strict |-> FALSE, globals |-> {}]
Environment == [strict |-> TRUE, globals |-> {"java_const"}]

(* Variable lookup in the render context; spec.name looks into the         *)
(* document.  The value is the text the variable prints as.                *)
Resolve(c, ref) ==
  IF ref = "spec.name"
  THEN IF "spec" \in DOMAIN c /\ "name" \in DOMAIN c["spec"]
       THEN [defined |-> TRUE, value |-> c["spec"]["name"]]
       ELSE [defined |-> FALSE, value |-> <<>>]
  ELSE IF ref \in DOMAIN c /\ ref # "spec"
       THEN [defined |-> TRUE, value |-> <<c[ref]>>]
       ELSE [defined |-> FALSE, value |-> <<>>]

(* Template.render with the context: an undefined value that is printed    *)
(* or passed to the helper raises under StrictUndefined and prints as      *)
(* nothing otherwise.                                                      *)
RECURSIVE render_items(_, _, _)
render_items(items, c, e) ==
  IF items = <<>> THEN [ok |-> TRUE, text |-> <<>>]
  ELSE LET it   == Head(items)
           rest == render_items(Tail(items), c, e)
           r    == Resolve(c, it.arg)
           here ==
             IF it.kind = "lit" THEN [ok |-> TRUE, text |-> <<it.arg>>]
             ELSE IF it.kind = "java_const" /\ "java_const" \notin e.globals
                  THEN [ok |-> FALSE, text |-> <<>>]
             ELSE IF ~r.defined THEN [ok |-> ~e.strict, text |-> <<>>]
             ELSE IF it.kind = "java_const" THEN [ok |-> TRUE, text |-> java_const(r.value)]
             ELSE [ok |-> TRUE, text |-> r.value]
       IN  IF here.ok /\ rest.ok THEN [ok |-> TRUE, text |-> here.text \o rest.text]
           ELSE [ok |-> FALSE, text |-> <<>>]

(* env.get_template(tpl).render, line 14                                   *)
get_template_render(tpl, c, e) ==
  IF ~tpl.exists THEN [ok |-> FALSE, exc |-> "TemplateNotFound", text |-> <<>>]
  ELSE LET r == render_items(tpl.items, c, e)
       IN  IF r.ok THEN [ok |-> TRUE, exc |-> "none", text |-> r.text]
           ELSE [ok |-> FALSE, exc |-> "UndefinedError", text |-> <<>>]

(***************************************************************************)
(* Path.mkdir and Path.write_text on the output path.                      *)
(***************************************************************************)
Parent(path) == IF path = "out/java" THEN "out" ELSE "."

Exists(path, ds) == path = "." \/ path \in ds

(* os.mkdir: the errno it fails with, or "ok".                             *)
os_mkdir(path, ds, flt) ==
  IF ~Exists(Parent(path), ds) THEN "ENOENT"
  ELSE IF Exists(path, ds) THEN "EEXIST"
  ELSE IF flt = "readonly" THEN "EROFS"
  ELSE "ok"

(* pathlib.Path.mkdir(parents, exist_ok)                                   *)
RECURSIVE mkdir(_, _, _, _, _)
mkdir(path, ds, flt, parents, exist_ok) ==
  LET e == os_mkdir(path, ds, flt)
  IN  IF e = "ok" THEN [ok |-> TRUE, dirs |-> ds \cup {path}]
      ELSE IF e = "ENOENT"
      THEN IF ~parents \/ path = "." THEN [ok |-> FALSE, dirs |-> ds]
           ELSE LET up == mkdir(Parent(path), ds, flt, TRUE, TRUE)
                IN  IF ~up.ok THEN up
                    ELSE mkdir(path, up.dirs, flt, FALSE, exist_ok)
      ELSE IF ~exist_ok \/ ~Exists(path, ds) THEN [ok |-> FALSE, dirs |-> ds]
      ELSE [ok |-> TRUE, dirs |-> ds]

mkdir_parent_no_exist_ok(ds, flt) == mkdir(OutDir, ds, flt, TRUE, FALSE)

(* outp.parent.mkdir(parents=True, exist_ok=True)                          *)
mkdir_parent(ds, flt) == mkdir(OutDir, ds, flt, TRUE, TRUE)

NoFile == [exists |-> FALSE, data |-> <<>>]
File(data) == [exists |-> TRUE, data |-> data]

open_w_keeps_data(f, ds, flt) ==
  IF ~Exists(OutDir, ds) THEN [ok |-> FALSE, file |-> f, offset |-> -1]
  ELSE IF flt = "readonly" THEN [ok |-> FALSE, file |-> f, offset |-> -1]
  ELSE [ok |-> TRUE, file |-> File(f.data), offset |-> 0]

open_w_appends(f, ds, flt) ==
  IF ~Exists(OutDir, ds) THEN [ok |-> FALSE, file |-> f, offset |-> -1]
  ELSE IF flt = "readonly" THEN [ok |-> FALSE, file |-> f, offset |-> -1]
  ELSE [ok |-> TRUE, file |-> File(f.data), offset |-> Len(f.data)]

(* open(mode='w'): O_WRONLY | O_CREAT | O_TRUNC; the new descriptor's      *)
(* offset is 0.                                                            *)
open_w(f, ds, flt) ==
  IF ~Exists(OutDir, ds) THEN [ok |-> FALSE, file |-> f, offset |-> -1]
  ELSE IF flt = "readonly" THEN [ok |-> FALSE, file |-> f, offset |-> -1]
  ELSE [ok |-> TRUE, file |-> File(<<>>), offset |-> 0]

(* write() of data through a descriptor at the given offset: the bytes     *)
(* replace what the file holds there, what lies before and beyond stays,   *)
(* and a gap before the offset reads as NUL.                               *)
write_at(f, offset, data) ==
  LET n      == Len(f.data)
      before == [i \in 1..offset |-> IF i <= n THEN f.data[i] ELSE "NUL"]
      beyond == IF n > offset + Len(data)
                THEN SubSeq(f.data, offset + Len(data) + 1, n) ELSE <<>>
  IN  File(before \o data \o beyond)

(***************************************************************************)
(* Statement order of the script.                                          *)
(***************************************************************************)
RenderSteps_mkdir_first == <<"mkdir", "get_template_render", "open_w", "write_close">>

RenderSteps_writes_twice ==
  <<"get_template_render", "mkdir", "open_w", "write_close", "open_w", "write_close">>

(* The body of render(): line 14, line 16, and line 17 as its two system   *)
(* calls, the truncating open and the write.                               *)
RenderSteps == <<"get_template_render", "mkdir", "open_w", "write_close">>

(* The body of __main__; its last statement calls render().                *)
MainSteps == <<"parse_args", "Environment", "load_spec", "render">>

RECURSIVE Inline(_)
Inline(steps) ==
  IF steps = <<>> THEN <<>>
  ELSE (IF Head(steps) = "render" THEN RenderSteps ELSE <<Head(steps)>>)
       \o Inline(Tail(steps))

Program == Inline(MainSteps)

Ended(p) == status[p] \in {"exit0", "exit1", "exit2"}

At(p, step) ==
  /\ status[p] = "running"
  /\ pc[p] \in 1..Len(Program)
  /\ Program[pc[p]] = step

Snapshot(ds, f) == [dirs |-> ds, outFile |-> f]

(* The statement returned: go on to the next one, or leave with status 0   *)
(* after the last.                                                         *)
Continue(p, step) ==
  /\ did' = [did EXCEPT ![p] = Append(@, step)]
  /\ pc' = [pc EXCEPT ![p] = @ + 1]
  /\ failed' = failed
  /\ IF pc[p] >= Len(Program)
     THEN /\ status' = [status EXCEPT ![p] = "exit0"]
          /\ fsAtExit' = [fsAtExit EXCEPT ![p] = Snapshot(dirs', outFile')]
     ELSE UNCHANGED <<status, fsAtExit>>

(* The statement raised: nothing catches it, the interpreter exits.        *)
Raise(p, step, exc, code) ==
  /\ did' = [did EXCEPT ![p] = Append(@, step)]
  /\ pc' = pc
  /\ failed' = [failed EXCEPT ![p] = exc]
  /\ status' = [status EXCEPT ![p] = code]
  /\ fsAtExit' = [fsAtExit EXCEPT ![p] = Snapshot(dirs', outFile')]

(* Lines 20-22: the process starts and parses its command line.            *)
ParseArgs(p, av) ==
  /\ status[p] = "idle"
  /\ concurrent \/ \A q \in Procs \ {p} : status[q] # "running"
  /\ LET a == parse_args(av)
     IN  /\ args' = [args EXCEPT ![p] = a.spec]
         /\ fsAtStart' = [fsAtStart EXCEPT ![p] = Snapshot(dirs, outFile)]
         /\ finishedBefore' = [finishedBefore EXCEPT ![p] = {q \in Procs : Ended(q)}]
         /\ UNCHANGED <<constVars, concurrent, fsVars, env, ctx, text, fd, writeOrder>>
         /\ argv' = [argv EXCEPT ![p] = av]
         /\ did' = [did EXCEPT ![p] = <<"parse_args">>]
         /\ IF a.ok
            THEN /\ status' = [status EXCEPT ![p] = "running"]
                 /\ pc' = [pc EXCEPT ![p] = 2]
                 /\ UNCHANGED <<failed, fsAtExit>>
            ELSE /\ status' = [status EXCEPT ![p] = "exit2"]
                 /\ failed' = [failed EXCEPT ![p] = "SystemExit"]
                 /\ fsAtExit' = [fsAtExit EXCEPT ![p] = Snapshot(dirs, outFile)]
                 /\ pc' = pc

(* Lines 24-29.                                                            *)
MakeEnvironment(p) ==
  /\ At(p, "Environment")
  /\ env' = [env EXCEPT ![p] = Environment]
  /\ UNCHANGED <<constVars, concurrent, fsVars, argv, args, ctx, text, fd,
                 fsAtStart, finishedBefore, writeOrder>>
  /\ Continue(p, "Environment")

(* Lines 30-32.                                                            *)
LoadSpec(p) ==
  /\ At(p, "load_spec")
  /\ UNCHANGED <<constVars, concurrent, fsVars, argv, args, env, text, fd,
                 fsAtStart, finishedBefore, writeOrder>>
  /\ LET r == load_spec(specFiles, args[p])
     IN  IF r.ok
         THEN /\ ctx' = [ctx EXCEPT ![p] = make_ctx(r.value)]
              /\ Continue(p, "load_spec")
         ELSE /\ ctx' = ctx
              /\ Raise(p, "load_spec", r.exc, "exit1")

(* Line 14.                                                                *)
GetTemplateRender(p) ==
  /\ At(p, "get_template_render")
  /\ UNCHANGED <<constVars, concurrent, fsVars, argv, args, env, ctx, fd,
                 fsAtStart, finishedBefore, writeOrder>>
  /\ LET r == get_template_render(template, ctx[p], env[p])
     IN  IF r.ok
         THEN /\ text' = [text EXCEPT ![p] = r.text]
              /\ Continue(p, "get_template_render")
         ELSE /\ text' = text
              /\ Raise(p, "get_template_render", r.exc, "exit1")

(* Lines 15-16.                                                            *)
Mkdir(p) ==
  /\ At(p, "mkdir")
  /\ UNCHANGED <<constVars, concurrent, specFiles, template, outFile, fault,
                 argv, args, env, ctx, text, fd, fsAtStart, finishedBefore, writeOrder>>
  /\ LET r == mkdir_parent(dirs, fault)
     IN  /\ dirs' = r.dirs
         /\ IF r.ok THEN Continue(p, "mkdir")
            ELSE Raise(p, "mkdir", "OSError", "exit1")

(* Line 17, opening the file.                                              *)
OpenW(p) ==
  /\ At(p, "open_w")
  /\ UNCHANGED <<constVars, concurrent, specFiles, template, dirs, fault,
                 argv, args, env, ctx, text, fsAtStart, finishedBefore, writeOrder>>
  /\ LET r == open_w(outFile, dirs, fault)
     IN  /\ outFile' = r.file
         /\ fd' = [fd EXCEPT ![p] = r.offset]
         /\ IF r.ok THEN Continue(p, "open_w")
            ELSE Raise(p, "open_w", "OSError", "exit1")

(* Line 17, writing the text and closing.  On a full disk only a proper    *)
(* prefix of the text reaches the file and the write raises.               *)
WriteClose(p) ==
  /\ At(p, "write_close")
  /\ UNCHANGED <<constVars, concurrent, specFiles, template, dirs, fault,
                 argv, args, env, ctx, text, fsAtStart, finishedBefore>>
  /\ writeOrder' = Append(writeOrder, p)
  /\ fd' = [fd EXCEPT ![p] = -1]
  /\ IF fault = "nospace" /\ text[p] # <<>>
     THEN \E k \in 0..(Len(text[p]) - 1) :
            /\ outFile' = write_at(outFile, fd[p], SubSeq(text[p], 1, k))
            /\ Raise(p, "write_close", "OSError", "exit1")
     ELSE /\ outFile' = write_at(outFile, fd[p], text[p])
          /\ Continue(p, "write_close")

(* A call java_const(name), as the template engine makes it.               *)
CallJavaConst ==
  /\ constPc = "call"
  /\ result' = java_const(name)
  /\ constPc' = "returned"
  /\ UNCHANGED <<name, concurrent, fsVars, procVars, histVars>>

(***************************************************************************)
(* Initial states.                                                         *)
(***************************************************************************)
OldShort == <<"old">>
OldLong  == <<"o1", "o2", "o3", "o4", "o5", "o6", "o7">>

InitFs ==
  /\ \E d \in {Content("absent", <<>>), Content("garbage", <<>>), Content("empty", <<>>),
               Content("yaml", <<"a", "-", "sharp_s">>)},
        a \in {Content("yaml", <<"7">>)} :
       specFiles = [q \in SpecPaths |->
                      IF q = DefaultSpec THEN d
                      ELSE IF q = "alt.yaml" THEN a
                      ELSE Content("absent", <<>>)]
  /\ template \in {NoTemplate} \cup {[exists |-> TRUE, items |-> t] : t \in Templates}
  /\ dirs \in {{}, {"out"}, {"out", "out/java"}}
  /\ outFile \in IF OutDir \in dirs THEN {NoFile, File(OldShort), File(OldLong)}
                 ELSE {NoFile}
  /\ fault \in {"none", "readonly", "nospace"}

InitProcs(st) ==
  /\ status = [p \in Procs |-> st]
  /\ pc = [p \in Procs |-> 1]
  /\ argv = [p \in Procs |-> <<>>]
  /\ args = [p \in Procs |-> DefaultSpec]
  /\ fd = [p \in Procs |-> -1]
  /\ env = [p \in Procs |-> NoEnv]
  /\ ctx = [p \in Procs |-> EmptyDict]
  /\ text = [p \in Procs |-> <<>>]
  /\ failed = [p \in Procs |-> "none"]
  /\ did = [p \in Procs |-> <<>>]
  /\ fsAtStart = [p \in Procs |-> Snapshot({}, NoFile)]
  /\ fsAtExit = [p \in Procs |-> Snapshot({}, NoFile)]
  /\ finishedBefore = [p \in Procs |-> {}]
  /\ writeOrder = <<>>

(* The generator run, possibly twice, one run after the other.             *)
Init ==
  /\ constPc = "off" /\ name = <<>> /\ result = <<>>
  /\ concurrent = FALSE
  /\ InitFs
  /\ InitProcs("idle")

(* Two generator processes started at any time against one directory.      *)
InitConcurrent ==
  /\ constPc = "off" /\ name = <<>> /\ result = <<>>
  /\ concurrent = TRUE
  /\ InitFs
  /\ InitProcs("idle")

(* The helper alone, on every name up to MaxLen characters.                *)
InitConst ==
  /\ constPc = "call" /\ name \in Names /\ result = <<>>
  /\ concurrent = FALSE
  /\ specFiles = [q \in SpecPaths |-> Content("absent", <<>>)]
  /\ template = NoTemplate /\ dirs = {} /\ outFile = NoFile /\ fault = "none"
  /\ InitProcs("off")

Run(p) ==
  \/ MakeEnvironment(p)
  \/ LoadSpec(p)
  \/ GetTemplateRender(p)
  \/ Mkdir(p)
  \/ OpenW(p)
  \/ WriteClose(p)

Next ==
  \/ \E p \in Procs, av \in Argvs : ParseArgs(p, av)
  \/ \E p \in Procs : MakeEnvironment(p)
  \/ \E p \in Procs : LoadSpec(p)
  \/ \E p \in Procs : GetTemplateRender(p)
  \/ \E p \in Procs : Mkdir(p)
  \/ \E p \in Procs : OpenW(p)
  \/ \E p \in Procs : WriteClose(p)

NextConst == CallJavaConst

Spec == Init /\ [][Next]_vars

(* The same runs with the interpreter taking every started script to its   *)
(* end.  What the output file held before does not bear on the steps a     *)
(* run takes, so these runs start without an output file, with the output  *)
(* directories all missing or all present, a missing, failing or printing  *)
(* template, and a malformed or well-formed default specification (a       *)
(* missing one is reached through --spec nonexistent.yaml).                *)
InitFair ==
  /\ Init
  /\ outFile = NoFile
  /\ dirs # {"out"}
  /\ specFiles[DefaultSpec].kind \in {"garbage", "yaml"}
  /\ \/ ~template.exists
     \/ template.items[1].arg \in {"v", "// "}

FairSpec == InitFair /\ [][Next]_vars /\ \A p \in Procs : WF_vars(Run(p))

SpecConcurrent == InitConcurrent /\ [][Next]_vars

SpecConst == InitConst /\ [][NextConst]_vars

(***************************************************************************)
(* Properties of java_const (specification SpecConst).                     *)
(***************************************************************************)
Range(s) == {s[i] : i \in 1..Len(s)}

AsciiLetters    == {"a", "Z"}
Letters         == {"a", "Z", "sharp_s", "kra"}
Digits          == {"7"}
UppercaseLetters == {"A", "Z", "S"}

(* C1: java_const(name) is name upper-cased with every hyphen and every    *)
(* period replaced by an underscore: it is as long as the upper-cased      *)
(* name and agrees with it at every position that holds neither of the     *)
(* two; where upper-casing keeps the length, position i of the result is   *)
(* the upper-case form of position i of the name.                          *)
C1_UpperThenUnderscores ==
  constPc = "returned" =>
    LET u == Upper(name)
    IN  /\ Len(result) = Len(u)
        /\ \A i \in 1..Len(u) :
             result[i] = IF u[i] \in {"-", "."} THEN "_" ELSE u[i]
        /\ "sharp_s" \notin Range(name) =>
             /\ Len(result) = Len(name)
             /\ \A i \in 1..Len(name) :
                  result[i] = IF name[i] \in {"-", "."} THEN "_"
                              ELSE CharUpper(name[i])[1]

C1_Witness ==
  /\ constPc = "returned"
  /\ name = <<"a", "-", ".">>
  /\ result = <<"A", "_", "_">>

Last(s) == s[Len(s)]

IsPrefix(s, t) == Len(s) <= Len(t) /\ \A i \in 1..Len(s) : s[i] = t[i]

ContextKeys == {"spec", "source_path", "java_package"}

PipelineOrder ==
  <<"parse_args", "Environment", "load_spec",
    "get_template_render", "mkdir", "open_w", "write_close">>

RenderFailed(p) == failed[p] \in {"TemplateNotFound", "UndefinedError"}

Rendered(p) == "get_template_render" \in Range(did[p]) /\ ~RenderFailed(p)

MkdirFailed(p) == Ended(p) /\ failed[p] # "none" /\ Last(did[p]) = "mkdir"

(* C3: a run whose rendering fails (template not found, or an undefined    *)
(* variable under strict-undefined) ends with an error status and has      *)
(* changed nothing on the filesystem: no directory made, no file opened,   *)
(* the output file and the directories as they were when it started.       *)
C3_RenderFailureChangesNothing ==
  \A p \in Procs :
    RenderFailed(p) =>
      /\ status[p] = "exit1"
      /\ Range(did[p]) \cap {"mkdir", "open_w", "write_close"} = {}
      /\ fsAtExit[p] = fsAtStart[p]
      /\ text[p] = <<>>

C3_Witness ==
  \E p \in Procs :
    /\ failed[p] = "UndefinedError"
    /\ status[p] = "exit1"
    /\ fsAtStart[p].dirs = {}

(* C4: when the file named by --spec is missing or is not a YAML document  *)
(* the run never reaches the template, ends with an error status, and      *)
(* leaves the directories and the output file as they were.                *)
C4_LoadFailureStopsBeforeRender ==
  \A p \in Procs :
    (status[p] \in {"running", "exit0", "exit1"}
       /\ specFiles[args[p]].kind \in {"absent", "garbage"})
    => /\ Range(did[p]) \cap {"get_template_render", "mkdir", "open_w", "write_close"} = {}
       /\ text[p] = <<>>
       /\ status[p] # "exit0"
       /\ Ended(p) => (failed[p] \in {"FileNotFoundError", "YAMLError"}
                         /\ fsAtExit[p] = fsAtStart[p])

C4_Witness ==
  \E p \in Procs :
    /\ args[p] = "nonexistent.yaml"
    /\ failed[p] = "FileNotFoundError"
    /\ status[p] = "exit1"
    /\ template.exists
    /\ fsAtStart[p].dirs = {}

(* C5: after loading and rendering succeeded, the directory step fails     *)
(* only when a missing directory cannot be created on a read-only          *)
(* location, never because the directories exist; once it has returned,    *)
(* out and out/java both exist; the file is opened and written only after  *)
(* it; and on a sound filesystem the run then ends with status 0 and the   *)
(* output file in place.                                                   *)
C5_ParentsCreatedBeforeWrite ==
  \A p \in Procs :
    /\ MkdirFailed(p) => (fault = "readonly" /\ OutDir \notin fsAtStart[p].dirs)
    /\ ("mkdir" \in Range(did[p]) /\ ~MkdirFailed(p)) => {"out", OutDir} \subseteq dirs
    /\ \A j \in 1..Len(did[p]) :
         did[p][j] \in {"open_w", "write_close"} =>
           \E i \in 1..(j - 1) : did[p][i] = "mkdir"
    /\ (Rendered(p) /\ Ended(p) /\ fault = "none") =>
         /\ status[p] = "exit0"
         /\ fsAtExit[p].dirs = {"out", OutDir}
         /\ fsAtExit[p].outFile.exists

C5_Witness ==
  \E p \in Procs :
    /\ status[p] = "exit0"
    /\ fsAtStart[p].dirs = {}
    /\ fsAtExit[p].dirs = {"out", OutDir}
    /\ fsAtExit[p].outFile.exists

(* C6: two successful runs, one after the other, with the same command     *)
(* line, the same specification file and the same template leave the same  *)
(* output file, whatever it held before the first.                         *)
C6_SecondRunSameOutput ==
  \A p, q \in Procs :
    (p # q /\ status[p] = "exit0" /\ status[q] = "exit0"
       /\ p \in finishedBefore[q] /\ argv[p] = argv[q])
    => fsAtExit[q].outFile = fsAtExit[p].outFile

C6_Witness ==
  \E p, q \in Procs :
    /\ p # q /\ status[p] = "exit0" /\ status[q] = "exit0"
    /\ p \in finishedBefore[q] /\ argv[p] = argv[q]
    /\ fsAtStart[p].outFile = File(OldLong)
    /\ fsAtExit[q].outFile = fsAtExit[p].outFile

(* C7: when render is called the context has exactly the keys spec,        *)
(* source_path and java_package: the document as parsed from the file, the *)
(* --spec path (sdk-spec.yaml when the option is omitted) and the fixed    *)
(* package name; it stays so to the end of the run.                        *)
C7_ContextHasThreeKeys ==
  \A p \in Procs :
    (At(p, "get_template_render") \/ "get_template_render" \in Range(did[p])) =>
      /\ DOMAIN ctx[p] = ContextKeys
      /\ ctx[p]["java_package"] = "com.braintrust.semconv"
      /\ ctx[p]["source_path"] = args[p]
      /\ argv[p] = <<>> => ctx[p]["source_path"] = "sdk-spec.yaml"
      /\ Len(argv[p]) = 2 => ctx[p]["source_path"] = argv[p][2]
      /\ DOMAIN ctx[p]["spec"] = DOMAIN safe_load(specFiles[args[p]]).doc
      /\ \A k \in DOMAIN ctx[p]["spec"] :
           ctx[p]["spec"][k] = specFiles[args[p]].name

C7_Witness ==
  \E p \in Procs :
    /\ At(p, "get_template_render")
    /\ argv[p] = <<>>
    /\ DOMAIN ctx[p] = ContextKeys
    /\ ctx[p]["source_path"] = "sdk-spec.yaml"
    /\ DOMAIN ctx[p]["spec"] = {"name"}

(* C8: after a successful run the output file holds exactly the text that  *)
(* run rendered; nothing of a previous, longer content remains.            *)
C8_OutputIsExactlyRenderedText ==
  \A p \in Procs :
    status[p] = "exit0" => fsAtExit[p].outFile = File(text[p])

C8_Witness ==
  \E p \in Procs :
    /\ status[p] = "exit0"
    /\ fsAtStart[p].outFile = File(OldLong)
    /\ Len(text[p]) < Len(OldLong)
    /\ fsAtExit[p].outFile = File(text[p])

(* C9: every started run ends; its steps are a prefix of load, render,     *)
(* mkdir, write in that order, each at most once; a step that fails is     *)
(* the last one and gives a nonzero status; status 0 comes only after the  *)
(* whole sequence, with one render and one write.                          *)
C9_StepsInOrder ==
  \A p \in Procs :
    /\ IsPrefix(did[p], PipelineOrder)
    /\ failed[p] # "none" => status[p] \in {"exit1", "exit2"}
    /\ status[p] = "exit0" => (did[p] = PipelineOrder /\ failed[p] = "none")
    /\ status[p] = "running" => failed[p] = "none"

C9_EndedStaysEnded ==
  \A p \in Procs :
    Ended(p) => (did'[p] = did[p] /\ status'[p] = status[p]
                   /\ fsAtExit'[p] = fsAtExit[p])

Overlapping ==
  \A p, q \in Procs : p \notin finishedBefore[q]

BothSucceeded == \A p \in Procs : status[p] = "exit0"

(* C10 as stated: after two overlapping successful runs the output file    *)
(* holds exactly the text of the run that wrote last.                      *)
C10_LastWriterTextOnly ==
  (BothSucceeded /\ Overlapping) => outFile = File(text[Last(writeOrder)])

(* C10, amended: after two overlapping successful runs the output file     *)
(* begins with the whole text of the run that wrote last; it is exactly    *)
(* that text, or, when the other run's text is longer, that text followed  *)
(* by the part of the other run's text that lies beyond its length.        *)
C10_LastWriterTextThenLeftover ==
  (BothSucceeded /\ Overlapping) =>
    LET w == writeOrder[2]
        o == writeOrder[1]
    IN  /\ Len(writeOrder) = 2 /\ w # o
        /\ outFile.exists
        /\ IsPrefix(text[w], outFile.data)
        /\ \/ outFile.data = text[w]
           \/ /\ Len(text[o]) > Len(text[w])
              /\ outFile.data =
                   text[w] \o SubSeq(text[o], Len(text[w]) + 1, Len(text[o]))

C10_Witness ==
  /\ BothSucceeded /\ Overlapping
  /\ Len(writeOrder) = 2
  /\ outFile.data # text[writeOrder[2]]
  /\ outFile.data # text[writeOrder[1]]
  /\ IsPrefix(text[writeOrder[2]], outFile.data)

====
